---- MODULE Spec2Model ----
(***************************************************************************)
(* URLShortener: the storage backends (memorystorage, filestorage,         *)
(* postgres), the code generator (urlshort) and the HTTP handlers that     *)
(* drive them, as a state machine.                                         *)
(*                                                                         *)
(* One behaviour runs one backend, chosen by cfg.StorageType at start      *)
(* (db.GetStorage).  Spec lets any caller use the ShortenerStorage         *)
(* interface directly and also runs the handlers; SpecHandlers runs the    *)
(* HTTP handlers only; SpecFault is Spec with journal writes that may      *)
(* fail.                                                                   *)
(***************************************************************************)
EXTENDS Integers, Sequences, FiniteSets, TLC

VARIABLES
    StorageType,   \* cfg.StorageType: "memory", "file" or "postgres"
    RelatesURLs,   \* memorystorage.Manager.RelatesURLs
    FileStorage,   \* *filestorage.Manager.FileStorage
    file,          \* the journal file behind filestorage.Manager.file: its lines
    shortener,     \* the rows of the postgres table "shortener"
    pipes,         \* the delete pipelines started by DeleteUrlsAsync
    procs,         \* the goroutines serving calls and requests step by step
    ret,           \* what the last call or request returned
    acked          \* history: the <<code, url>> pairs of the Puts that returned nil

vars == <<StorageType, RelatesURLs, FileStorage, file, shortener, pipes, procs, ret,
          acked>>

-----------------------------------------------------------------------------
(* Bounds of the model *)

MaxRecords == 2      \* records a backend holds at most
MaxBatch == 2        \* records in one PutBatch at most
MaxDeletes == 1      \* delete requests accepted in one behaviour
MaxDeleteLen == 1    \* codes in a short delete request

(* Program constants *)

batchSize == 10            \* postgres.go: const batchSize = 10
MaxScanTokenSize == 65536  \* bufio.MaxScanTokenSize, the limit of bufio.NewScanner

BaseURL == "http://localhost:8080"

(* Inputs *)

Codes == {"aaaaaaaa", "Bc7dE9fg", "ZZZZ0000"}
LongURL == "https://long.example/path-of-65536-bytes"
LongURLLen == 65536
URLs == {"https://example.com", LongURL}
UserIDs == {"u1", "u2"}
Owners == UserIDs

\* len(s) in bytes; LongURL stands for a URL of LongURLLen bytes
ByteLen(s) == IF s = LongURL THEN LongURLLen ELSE Len(s)

-----------------------------------------------------------------------------
(* types.URLData and the error values *)

URLData(userID, shortURL, originalURL) ==
    [UserID |-> userID, ShortURL |-> shortURL, OriginalURL |-> originalURL,
     DeletedFlag |-> FALSE]

\* an error value: its dynamic type, its message, and the code an
\* OriginalExistError carries
Nil == [type |-> "nil", msg |-> "", ShortURL |-> ""]
Errorf(msg) == [type |-> "error", msg |-> msg, ShortURL |-> ""]
OriginalExistError(shortURL) ==
    [type |-> "OriginalExistError",
     msg |-> "original URL already exists, short URL for it is: " \o shortURL,
     ShortURL |-> shortURL]

ErrNotFound == Errorf("URL not found")
ErrDeleted == Errorf("URL has been deleted")
ErrNoURLs(userID) == Errorf("no URLs found for userID: " \o userID)

Range(s) == {s[i] : i \in 1..Len(s)}

\* the index, from i on, of the first TRUE of hits (the test of the loop on
\* each element), 0 if none
RECURSIVE FirstIndex(_, _)
FirstIndex(hits, i) ==
    IF i > Len(hits) THEN 0
    ELSE IF hits[i] THEN i
    ELSE FirstIndex(hits, i + 1)

-----------------------------------------------------------------------------
(* memorystorage.Manager *)

MemGetOriginal(urls, shortURL) ==
    LET Hit(urlData) == urlData.ShortURL = shortURL
        i == FirstIndex([k \in DOMAIN urls |-> Hit(urls[k])], 1)
    IN  IF i # 0 THEN [val |-> urls[i].OriginalURL, err |-> Nil]
        ELSE [val |-> "", err |-> ErrNotFound]

MemPut(urls, urlData) ==
    [urls |-> Append(urls, urlData), err |-> Nil]

RECURSIVE MemPutBatch(_, _)
MemPutBatch(urls, batchData) ==
    IF batchData = <<>> THEN [urls |-> urls, err |-> Nil]
    ELSE LET r == MemPut(urls, Head(batchData))
         IN  IF r.err # Nil THEN r
             ELSE MemPutBatch(r.urls, Tail(batchData))

MemExists(urls, shortURL) ==
    LET Hit(urlData) == urlData.ShortURL = shortURL
    IN  [val |-> FirstIndex([k \in DOMAIN urls |-> Hit(urls[k])], 1) # 0, err |-> Nil]

\* the entry GetURLsByUserID renders for a record
UserURL(shortURL, originalURL) ==
    [UserID |-> "", ShortURL |-> BaseURL \o "/" \o shortURL,
     OriginalURL |-> originalURL, DeletedFlag |-> FALSE]

\* mutant: the listing without the test of the owner
RECURSIVE MemUserURLsAnyOwner(_, _)
MemUserURLsAnyOwner(urls, userID) ==
    IF urls = <<>> THEN <<>>
    ELSE <<UserURL(Head(urls).ShortURL, Head(urls).OriginalURL)>>
         \o MemUserURLsAnyOwner(Tail(urls), userID)

RECURSIVE MemUserURLs(_, _)
MemUserURLs(urls, userID) ==
    IF urls = <<>> THEN <<>>
    ELSE LET urlData == Head(urls)
             rest == MemUserURLs(Tail(urls), userID)
         IN  IF urlData.UserID = userID
             THEN <<UserURL(urlData.ShortURL, urlData.OriginalURL)>> \o rest
             ELSE rest

MemGetURLsByUserID(urls, userID) ==
    LET userURLs == MemUserURLs(urls, userID)
    IN  IF Len(userURLs) = 0 THEN [val |-> <<>>, err |-> ErrNoURLs(userID)]
        ELSE [val |-> userURLs, err |-> Nil]

-----------------------------------------------------------------------------
(* encoding/json on types.URLData: a line is the sequence of its members,     *)
(* each <<name, kind, text>>; a string member tagged omitempty is left out    *)
(* when empty                                                                 *)

JSONBool(b) == IF b THEN "true" ELSE "false"

Marshal(urlData) ==
    (IF urlData.UserID = "" THEN <<>>
     ELSE <<<<"user_id", "string", urlData.UserID>>>>)
    \o (IF urlData.ShortURL = "" THEN <<>>
        ELSE <<<<"short_url", "string", urlData.ShortURL>>>>)
    \o (IF urlData.OriginalURL = "" THEN <<>>
        ELSE <<<<"original_url", "string", urlData.OriginalURL>>>>)
    \o <<<<"is_deleted", "bool", JSONBool(urlData.DeletedFlag)>>>>

\* the value of member name in line, dflt when the line has no such member
Member(line, name, dflt) ==
    LET Hit(m) == m[1] = name
        i == FirstIndex([k \in DOMAIN line |-> Hit(line[k])], 1)
    IN  IF i = 0 THEN dflt ELSE line[i][3]

Unmarshal(line) ==
    [UserID |-> Member(line, "user_id", ""),
     ShortURL |-> Member(line, "short_url", ""),
     OriginalURL |-> Member(line, "original_url", ""),
     DeletedFlag |-> Member(line, "is_deleted", "false") = "true"]

\* bytes of one member: "name":"text" or "name":text
MemberLen(m) ==
    Len(m[1]) + 3 + (IF m[2] = "string" THEN ByteLen(m[3]) + 2 ELSE Len(m[3]))

RECURSIVE MembersLen(_)
MembersLen(line) ==
    IF line = <<>> THEN 0 ELSE MemberLen(Head(line)) + MembersLen(Tail(line))

\* bytes of the encoded line, without the newline: braces, members, commas
LineLen(line) == 2 + MembersLen(line) + (Len(line) - 1)

-----------------------------------------------------------------------------
(* filestorage.Manager *)

ErrWrite == Errorf("write: input/output error")
ErrTooLong == Errorf("bufio.Scanner: token too long")

\* WriteURL: the line is appended to the file, or the write fails
WriteURL(f, urlData, written) ==
    IF written THEN [file |-> Append(f, Marshal(urlData)), err |-> Nil]
    ELSE [file |-> f, err |-> ErrWrite]

FileGetOriginal(fs, shortURL) ==
    LET Hit(urlData) == urlData.ShortURL = shortURL
        i == FirstIndex([k \in DOMAIN fs |-> Hit(fs[k])], 1)
    IN  IF i # 0 THEN [val |-> fs[i].OriginalURL, err |-> Nil]
        ELSE [val |-> "", err |-> ErrNotFound]

\* written: whether the journal write of this Put succeeds
FilePut(fs, f, urlData, written) ==
    LET data == URLData(urlData.UserID, urlData.ShortURL, urlData.OriginalURL)
        w == WriteURL(f, urlData, written)
    IN  [fs |-> Append(fs, data), file |-> w.file, err |-> w.err]

\* writes[i]: whether the journal write of the i-th record succeeds
RECURSIVE FilePutBatch(_, _, _, _)
FilePutBatch(fs, f, batchData, writes) ==
    IF batchData = <<>> THEN [fs |-> fs, file |-> f, err |-> Nil]
    ELSE LET r == FilePut(fs, f, Head(batchData), Head(writes))
         IN  IF r.err # Nil THEN r
             ELSE FilePutBatch(r.fs, r.file, Tail(batchData), Tail(writes))

FileExists(fs, shortURL) ==
    LET Hit(urlData) == urlData.ShortURL = shortURL
    IN  [val |-> FirstIndex([k \in DOMAIN fs |-> Hit(fs[k])], 1) # 0, err |-> Nil]

FileGetURLsByUserID(fs, userID) ==
    LET userURLs == MemUserURLs(fs, userID)
    IN  IF Len(userURLs) = 0 THEN [val |-> <<>>, err |-> ErrNoURLs(userID)]
        ELSE [val |-> userURLs, err |-> Nil]

\* the scanner loop of LoadURLStorageFromFile: a line that does not fit the
\* scanner's buffer together with its newline ends the scan with ErrTooLong
RECURSIVE ScanLines(_, _)
ScanLines(fs, lines) ==
    IF lines = <<>> THEN [fs |-> fs, err |-> Nil]
    ELSE IF LineLen(Head(lines)) + 1 > MaxScanTokenSize
         THEN [fs |-> fs, err |-> ErrTooLong]
    ELSE ScanLines(Append(fs, Unmarshal(Head(lines))), Tail(lines))

LoadURLStorageFromFile(f) ==
    IF Len(f) = 0 THEN [fs |-> <<>>, err |-> Nil]
    ELSE ScanLines(<<>>, f)

\* NewManager on an existing journal: no Manager when the load fails
FileNewManager(f) ==
    LET l == LoadURLStorageFromFile(f)
    IN  IF l.err # Nil
        THEN [ok |-> FALSE, fs |-> <<>>,
              err |-> Errorf("failed to load URL storage from file: " \o l.err.msg)]
        ELSE [ok |-> TRUE, fs |-> l.fs, err |-> Nil]

-----------------------------------------------------------------------------
(* postgres.Manager: the table shortener, short_url UNIQUE, original_url     *)
(* UNIQUE, is_deleted DEFAULT FALSE (createShortenerTable)                    *)

Row(userID, shortURL, originalURL) ==
    [user_id |-> userID, short_url |-> shortURL, original_url |-> originalURL,
     is_deleted |-> FALSE]

ErrUnique == Errorf("duplicate key value violates unique constraint")

HasShort(table, shortURL) == \E i \in 1..Len(table) : table[i].short_url = shortURL
HasOriginal(table, originalURL) ==
    \E i \in 1..Len(table) : table[i].original_url = originalURL

\* the row holding originalURL (original_url is UNIQUE)
RowOfOriginal(table, originalURL) ==
    LET Hit(row) == row.original_url = originalURL
    IN  table[FirstIndex([k \in DOMAIN table |-> Hit(table[k])], 1)]

\* INSERT INTO shortener (short_url, original_url, user_id) VALUES ($1, $2, $3)
PgInsert(table, urlData) ==
    IF HasShort(table, urlData.ShortURL) \/ HasOriginal(table, urlData.OriginalURL)
    THEN [table |-> table, err |-> ErrUnique]
    ELSE [table |-> Append(table, Row(urlData.UserID, urlData.ShortURL,
                                      urlData.OriginalURL)),
          err |-> Nil]

\* the statement of preparePutStatement: ON CONFLICT (original_url) DO NOTHING
\* skips the insert when original_url is taken, any other violation is an
\* error; the SELECT reads the table as it was before the statement
putStmt(table, urlData) ==
    IF HasOriginal(table, urlData.OriginalURL)
    THEN [table |-> table, err |-> Nil,
          rows |-> <<RowOfOriginal(table, urlData.OriginalURL).short_url>>]
    ELSE LET ins == PgInsert(table, urlData)
         IN  [table |-> ins.table, err |-> ins.err, rows |-> <<>>]

\* mutant: the conflict carries the requested code, not the stored one
PgPutRequestedCode(table, urlData) ==
    LET q == putStmt(table, urlData)
    IN  IF q.err # Nil
        THEN [table |-> q.table,
              err |-> Errorf("failed to insert URL: " \o q.err.msg)]
        ELSE IF q.rows # <<>>
        THEN [table |-> q.table, err |-> OriginalExistError(urlData.ShortURL)]
        ELSE [table |-> q.table, err |-> Nil]

\* mutant: the statement with ON CONFLICT (original_url) DO UPDATE: the
\* stored row takes the requested code and owner
PgPutUpsert(table, urlData) ==
    IF HasOriginal(table, urlData.OriginalURL)
    THEN [table |->
            [i \in 1..Len(table) |->
                IF table[i].original_url = urlData.OriginalURL
                THEN Row(urlData.UserID, urlData.ShortURL, urlData.OriginalURL)
                ELSE table[i]],
          err |-> OriginalExistError(
                      RowOfOriginal(table, urlData.OriginalURL).short_url)]
    ELSE [table |-> PgInsert(table, urlData).table,
          err |-> PgInsert(table, urlData).err]

PgPut(table, urlData) ==
    LET q == putStmt(table, urlData)
        alreadyExistedShortURL == IF q.err = Nil /\ q.rows # <<>> THEN q.rows[1] ELSE ""
    IN  IF q.err # Nil
        THEN [table |-> q.table,
              err |-> Errorf("failed to insert URL: " \o q.err.msg)]
        ELSE IF alreadyExistedShortURL # ""
        THEN [table |-> q.table, err |-> OriginalExistError(alreadyExistedShortURL)]
        ELSE [table |-> q.table, err |-> Nil]

\* the inserts of PutBatch inside the transaction: tx is the table as the
\* transaction sees it
RECURSIVE PgBatchInserts(_, _)
PgBatchInserts(tx, batchData) ==
    IF batchData = <<>> THEN [table |-> tx, err |-> Nil]
    ELSE LET ins == PgInsert(tx, Head(batchData))
         IN  IF ins.err # Nil THEN ins
             ELSE PgBatchInserts(ins.table, Tail(batchData))

\* mutant: no Rollback, the inserts made before the failure stay
PgPutBatchNoRollback(table, batchData) == PgBatchInserts(table, batchData)

\* Rollback leaves the table as it was at Begin, Commit installs the inserts
PgPutBatch(table, batchData) ==
    LET r == PgBatchInserts(table, batchData)
    IN  IF r.err # Nil THEN [table |-> table, err |-> r.err]
        ELSE [table |-> r.table, err |-> Nil]

PgGetOriginal(table, shortURL) ==
    LET Hit(row) == row.short_url = shortURL
        i == FirstIndex([k \in DOMAIN table |-> Hit(table[k])], 1)
    IN  IF i = 0 THEN [val |-> "", err |-> ErrNotFound]
        ELSE IF table[i].is_deleted THEN [val |-> "", err |-> ErrDeleted]
        ELSE [val |-> table[i].original_url, err |-> Nil]

PgExists(table, shortURL) == [val |-> HasShort(table, shortURL), err |-> Nil]

\* SELECT short_url, original_url FROM shortener WHERE user_id = $1, the
\* rows taken in the order of the sequence of indexes order
PgSelectByUser(table, userID, order) ==
    LET hits == SelectSeq(order, LAMBDA i : table[i].user_id = userID)
    IN  [k \in 1..Len(hits) |->
            UserURL(table[hits[k]].short_url, table[hits[k]].original_url)]

\* order: the order in which the store returns the rows (the query has no
\* ORDER BY)
PgGetURLsByUserID(table, userID, order) ==
    LET urls == PgSelectByUser(table, userID, order)
    IN  IF Len(urls) = 0 THEN [val |-> <<>>, err |-> ErrNoURLs(userID)]
        ELSE [val |-> urls, err |-> Nil]

\* mutant: the UPDATE without AND user_id = $2
updateBatchAnyOwner(table, urlsBatch, userID) ==
    [i \in 1..Len(table) |->
        IF table[i].short_url \in Range(urlsBatch)
        THEN [table[i] EXCEPT !.is_deleted = TRUE]
        ELSE table[i]]

\* mutant: the UPDATE as SET is_deleted = NOT is_deleted
updateBatchToggle(table, urlsBatch, userID) ==
    [i \in 1..Len(table) |->
        IF table[i].short_url \in Range(urlsBatch) /\ table[i].user_id = userID
        THEN [table[i] EXCEPT !.is_deleted = ~@]
        ELSE table[i]]

\* UPDATE shortener SET is_deleted = TRUE
\*  WHERE short_url = ANY($1) AND user_id = $2
updateBatch(table, urlsBatch, userID) ==
    [i \in 1..Len(table) |->
        IF table[i].short_url \in Range(urlsBatch) /\ table[i].user_id = userID
        THEN [table[i] EXCEPT !.is_deleted = TRUE]
        ELSE table[i]]

\* the orders of the indexes 1..n
Orders(n) ==
    {o \in [1..n -> 1..n] : \A i, j \in 1..n : i # j => o[i] # o[j]}

-----------------------------------------------------------------------------
(* db.ShortenerStorage: the calls of the interface on the backend that        *)
(* db.GetStorage constructed.  st is the state of the backend.                *)

Storage ==
    [RelatesURLs |-> RelatesURLs, FileStorage |-> FileStorage, file |-> file,
     shortener |-> shortener]

\* the records the backend holds
Records(st) ==
    CASE StorageType = "memory" -> st.RelatesURLs
      [] StorageType = "file" -> st.FileStorage
      [] StorageType = "postgres" ->
            [i \in 1..Len(st.shortener) |->
                [UserID |-> st.shortener[i].user_id,
                 ShortURL |-> st.shortener[i].short_url,
                 OriginalURL |-> st.shortener[i].original_url,
                 DeletedFlag |-> st.shortener[i].is_deleted]]

GetOriginal(st, shortURL) ==
    CASE StorageType = "memory" -> MemGetOriginal(st.RelatesURLs, shortURL)
      [] StorageType = "file" -> FileGetOriginal(st.FileStorage, shortURL)
      [] StorageType = "postgres" -> PgGetOriginal(st.shortener, shortURL)

Exists(st, shortURL) ==
    CASE StorageType = "memory" -> MemExists(st.RelatesURLs, shortURL)
      [] StorageType = "file" -> FileExists(st.FileStorage, shortURL)
      [] StorageType = "postgres" -> PgExists(st.shortener, shortURL)

GetURLsByUserID(st, userID, order) ==
    CASE StorageType = "memory" -> MemGetURLsByUserID(st.RelatesURLs, userID)
      [] StorageType = "file" -> FileGetURLsByUserID(st.FileStorage, userID)
      [] StorageType = "postgres" -> PgGetURLsByUserID(st.shortener, userID, order)

\* Put and PutBatch return the backend after the call and the error
Put(st, urlData, written) ==
    CASE StorageType = "memory" ->
            LET r == MemPut(st.RelatesURLs, urlData)
            IN  [st |-> [st EXCEPT !.RelatesURLs = r.urls], err |-> r.err]
      [] StorageType = "file" ->
            LET r == FilePut(st.FileStorage, st.file, urlData, written)
            IN  [st |-> [st EXCEPT !.FileStorage = r.fs, !.file = r.file],
                 err |-> r.err]
      [] StorageType = "postgres" ->
            LET r == PgPut(st.shortener, urlData)
            IN  [st |-> [st EXCEPT !.shortener = r.table], err |-> r.err]

PutBatch(st, batchData, writes) ==
    CASE StorageType = "memory" ->
            LET r == MemPutBatch(st.RelatesURLs, batchData)
            IN  [st |-> [st EXCEPT !.RelatesURLs = r.urls], err |-> r.err]
      [] StorageType = "file" ->
            LET r == FilePutBatch(st.FileStorage, st.file, batchData, writes)
            IN  [st |-> [st EXCEPT !.FileStorage = r.fs, !.file = r.file],
                 err |-> r.err]
      [] StorageType = "postgres" ->
            LET r == PgPutBatch(st.shortener, batchData)
            IN  [st |-> [st EXCEPT !.shortener = r.table], err |-> r.err]

\* GetStats of memorystorage and filestorage: urls is the slice; userSet
\* takes the UserID of every record that has one
RECURSIVE UserSet(_)
UserSet(urls) ==
    IF urls = <<>> THEN {}
    ELSE (IF Head(urls).UserID # "" THEN {Head(urls).UserID} ELSE {})
         \cup UserSet(Tail(urls))

MemGetStats(urls) ==
    [val |-> [Urls |-> Len(urls), Users |-> Cardinality(UserSet(urls))], err |-> Nil]

FileGetStats(fs) ==
    [val |-> [Urls |-> Len(fs), Users |-> Cardinality(UserSet(fs))], err |-> Nil]

GetStats(st) ==
    CASE StorageType = "memory" -> MemGetStats(st.RelatesURLs)
      [] StorageType = "file" -> FileGetStats(st.FileStorage)

-----------------------------------------------------------------------------
(* urlshort *)

\* const charset, const keyLength of GenerateShortURL
charset ==
    <<"a", "b", "c", "d", "e", "f", "g", "h", "i", "j", "k", "l", "m",
      "n", "o", "p", "q", "r", "s", "t", "u", "v", "w", "x", "y", "z",
      "A", "B", "C", "D", "E", "F", "G", "H", "I", "J", "K", "L", "M",
      "N", "O", "P", "Q", "R", "S", "T", "U", "V", "W", "X", "Y", "Z",
      "0", "1", "2", "3", "4", "5", "6", "7", "8", "9">>
keyLength == 8

\* the values rand.Intn(len(charset)) takes in the eight iterations of one
\* filling of shortURL: three of the draws, those of the candidates Codes
RandIntn ==
    {<<0, 0, 0, 0, 0, 0, 0, 0>>,
     <<27, 2, 59, 3, 30, 61, 5, 6>>,
     <<51, 51, 51, 51, 52, 52, 52, 52>>}

\* mutant: the filling stops one byte short
FillShort(ix) == [i \in 1..(keyLength - 1) |-> charset[ix[i] + 1]]

\* for i := range shortURL { shortURL[i] = charset[rand.Intn(len(charset))] }
Fill(ix) == [i \in 1..keyLength |-> charset[ix[i] + 1]]

\* string(shortURL)
RECURSIVE String(_)
String(bytes) ==
    IF bytes = <<>> THEN "" ELSE Head(bytes) \o String(Tail(bytes))

\* mutant: the first candidate is returned without asking Exists
GenerateShortURLUnchecked(st, draws) ==
    [done |-> TRUE, val |-> Head(draws), err |-> Nil, left |-> Tail(draws)]

\* storage.Exists(shortURL) with the outcome of its query: QueryRow fails
\* on postgres only, Exists of the other backends returns no error
ExistsExec(st, shortURL, ok) ==
    IF StorageType = "postgres" /\ ~ok
    THEN [val |-> FALSE, err |-> Errorf("failed to check if URL exists: query")]
    ELSE Exists(st, shortURL)

\* mutant: the error of Exists is dropped and the candidate returned
RECURSIVE GenerateShortURLDropErr(_, _, _)
GenerateShortURLDropErr(st, draws, fail) ==
    IF draws = <<>>
    THEN [done |-> FALSE, val |-> "", err |-> Nil, left |-> <<>>, fail |-> fail]
    ELSE LET e == ExistsExec(st, Head(draws), fail # 1)
             rest == IF fail = 0 THEN 0 ELSE fail - 1
         IN  IF ~e.val
             THEN [done |-> TRUE, val |-> Head(draws), err |-> Nil,
                   left |-> Tail(draws), fail |-> rest]
             ELSE GenerateShortURLDropErr(st, Tail(draws), rest)

\* GenerateShortURL: draws are the candidates rand.Intn produces, in order,
\* and the fail-th call of Exists fails (0: none does).  The loop returns the
\* first candidate the storage does not hold, or the error of Exists; done
\* is FALSE when every candidate of draws is taken and the loop goes on,
\* left are the draws the loop did not come to, and the failure is the
\* fail-th call of Exists after the return.
RECURSIVE GenerateShortURLExec(_, _, _)
GenerateShortURLExec(st, draws, fail) ==
    IF draws = <<>>
    THEN [done |-> FALSE, val |-> "", err |-> Nil, left |-> <<>>, fail |-> fail]
    ELSE LET e == ExistsExec(st, Head(draws), fail # 1)
             rest == IF fail = 0 THEN 0 ELSE fail - 1
         IN  IF e.err # Nil
             THEN [done |-> TRUE, val |-> "",
                   err |-> Errorf("failed to check if URL exists: " \o e.err.msg),
                   left |-> Tail(draws), fail |-> rest]
             ELSE IF ~e.val
             THEN [done |-> TRUE, val |-> Head(draws), err |-> Nil,
                   left |-> Tail(draws), fail |-> rest]
             ELSE GenerateShortURLExec(st, Tail(draws), rest)

\* GenerateShortURL on a storage whose Exists returns no error
GenerateShortURL(st, draws) == GenerateShortURLExec(st, draws, 0)

\* mutant: no candidate counts as minted in this batch
MintedNever(newShorts, shortURL) == FALSE

\* _, ok := newShorts[shortURL]; newShorts are the keys of the map
Minted(newShorts, shortURL) == shortURL \in newShorts

ShortenBatchRequest(correlationID, originalURL) ==
    [CorrelationID |-> correlationID, OriginalURL |-> originalURL]

ShortenBatchResponse(correlationID, shortURL) ==
    [CorrelationID |-> correlationID, ShortURL |-> shortURL]

\* the loop of GenerateShortBatch from batch[acc.n] on (the first index is
\* 1); acc holds n, newShorts, batchResponse and urlData
RECURSIVE GenerateShortBatchLoop(_, _, _, _, _, _)
GenerateShortBatchLoop(st, batch, userID, draws, fail, acc) ==
    IF acc.n > Len(batch)
    THEN [done |-> TRUE, batchResponse |-> acc.batchResponse,
          urlData |-> acc.urlData, err |-> Nil, left |-> draws]
    ELSE LET g == GenerateShortURLExec(st, draws, fail)
         IN  IF ~g.done
             THEN [done |-> FALSE, batchResponse |-> <<>>, urlData |-> <<>>,
                   err |-> Nil, left |-> <<>>]
             ELSE IF g.err # Nil
             THEN [done |-> TRUE, batchResponse |-> <<>>, urlData |-> <<>>,
                   err |-> g.err, left |-> g.left]
             ELSE IF Minted(acc.newShorts, g.val)
             THEN GenerateShortBatchLoop(st, batch, userID, g.left, g.fail, acc)
             ELSE GenerateShortBatchLoop(st, batch, userID, g.left, g.fail,
                    [n |-> acc.n + 1,
                     newShorts |-> acc.newShorts \cup {g.val},
                     batchResponse |->
                        Append(acc.batchResponse,
                               ShortenBatchResponse(batch[acc.n].CorrelationID,
                                                    BaseURL \o "/" \o g.val)),
                     urlData |->
                        Append(acc.urlData,
                               URLData(userID, g.val, batch[acc.n].OriginalURL))])

GenerateShortBatch(st, batch, userID, draws, fail) ==
    GenerateShortBatchLoop(st, batch, userID, draws, fail,
        [n |-> 1, newShorts |-> {}, batchResponse |-> <<>>, urlData |-> <<>>])

\* ValidateURL on the request bodies of the model: the URLs match urlRegex,
\* the other bodies do not
ValidateURL(url) == url \in URLs

ValidateBatchRequestURLs(batch) ==
    \A i \in 1..Len(batch) : ValidateURL(batch[i].OriginalURL)

-----------------------------------------------------------------------------
(* handlers.Handler: a handler returns the backend after the request and the  *)
(* response it wrote                                                          *)

Response(st, status, body, su, err) ==
    [st |-> st, status |-> status, body |-> body, su |-> su, err |-> err]

\* the part URLWaiter and Shorten share, from GenerateShortURL on; the
\* handler's format renders the result between open and close
ShortenURL(st, url, userID, draws, written, open, close) ==
    LET Body(r) == open \o r \o close
        g == GenerateShortURL(st, draws)
        p == Put(st, URLData(userID, g.val, url), written)
    IN  IF g.err # Nil
        THEN Response(st, 500, "failed to generate short URL: " \o g.err.msg, "", g.err)
        ELSE IF p.err # Nil
        THEN IF p.err.type = "OriginalExistError"
             THEN Response(p.st, 409, Body(BaseURL \o "/" \o p.err.ShortURL),
                           g.val, p.err)
             ELSE Response(p.st, 500, "error when trying to put data in storage",
                           g.val, p.err)
        ELSE Response(p.st, 201, Body(BaseURL \o "/" \o g.val), g.val, Nil)

\* mutant: URLWaiter without the test of the method
URLWaiterAnyMethod(st, method, body, userID, draws, written) ==
    IF ~ValidateURL(body)
    THEN Response(st, 400, "wrong parameters", "", Nil)
    ELSE ShortenURL(st, body, userID, draws, written, "", "")

URLWaiter(st, method, body, userID, draws, written) ==
    IF method # "POST"
    THEN Response(st, 400, "only POST method is allowed", "", Nil)
    ELSE IF ~ValidateURL(body)
    THEN Response(st, 400, "wrong parameters", "", Nil)
    ELSE ShortenURL(st, body, userID, draws, written, "", "")

\* url is the member "url" of the decoded request
Shorten(st, url, userID, draws, written) ==
    IF ~ValidateURL(url)
    THEN Response(st, 400, "wrong parameters", "", Nil)
    ELSE ShortenURL(st, url, userID, draws, written, "{\"result\":\"", "\"}")

\* ShortenBatch: body is what the handler wrote to the response, the text
\* of http.Error and the list it marshalled, and status the first status
\* written (a later WriteHeader changes nothing); gen is what
\* GenerateShortBatch returned and err what PutBatch returned
ShortenBatch(st, batchRequest, userID, draws, fail, writes) ==
    LET g == GenerateShortBatch(st, batchRequest, userID, draws, fail)
        p == PutBatch(st, g.urlData, writes)
        none == [done |-> TRUE, batchResponse |-> <<>>, urlData |-> <<>>,
                 err |-> Nil, left |-> draws]
    IN  IF ~ValidateBatchRequestURLs(batchRequest)
        THEN [st |-> st, status |-> 400,
              body |-> [text |-> "wrong parameters", list |-> <<>>],
              gen |-> none, err |-> Nil]
        ELSE IF g.err # Nil
        THEN [st |-> st, status |-> 500,
              body |-> [text |-> "failed to generate short URL: " \o g.err.msg,
                        list |-> <<>>],
              gen |-> g, err |-> Nil]
        ELSE IF p.err # Nil
        THEN [st |-> p.st, status |-> 500,
              body |-> [text |-> "error when trying to put data in storage",
                        list |-> g.batchResponse],
              gen |-> g, err |-> p.err]
        ELSE [st |-> p.st, status |-> 201,
              body |-> [text |-> "", list |-> g.batchResponse],
              gen |-> g, err |-> Nil]

\* strings.Contains(err.Error(), "URL has been deleted") on the messages
\* GetOriginal returns: only that of ErrDeleted contains the words
ContainsDeleted(msg) == msg = "URL has been deleted"

\* mutant: URLReturner without the test for a deleted URL
URLReturnerNoGone(st, method, shortURL) ==
    LET r == GetOriginal(st, shortURL)
    IN  IF method # "GET"
        THEN [status |-> 400, body |-> "only GET method is allowed", Location |-> ""]
        ELSE IF r.err # Nil
        THEN [status |-> 404, body |-> "URL not found", Location |-> ""]
        ELSE [status |-> 307, body |-> "", Location |-> r.val]

\* URLReturner: shortURL is the request path after "/"
URLReturner(st, method, shortURL) ==
    LET r == GetOriginal(st, shortURL)
    IN  IF method # "GET"
        THEN [status |-> 400, body |-> "only GET method is allowed", Location |-> ""]
        ELSE IF r.err # Nil
        THEN IF ContainsDeleted(r.err.msg)
             THEN [status |-> 410, body |-> "URL has been deleted", Location |-> ""]
             ELSE [status |-> 404, body |-> "URL not found", Location |-> ""]
        ELSE [status |-> 307, body |-> "", Location |-> r.val]

-----------------------------------------------------------------------------
(* middleware.WithAuth and auth.Manager: the user of an HTTP request.  A      *)
(* token is the claims and the key that signed them.                          *)

SecretKey == "supersecretkey"

\* the ID GenerateNewUserID returns: a new UUID, the ID of no stored record
NewUserID == "00000000-0000-4000-8000-000000000000"

BuildJWTStringWithNewID(userID) == [UserID |-> userID, key |-> SecretKey]

GetUserIDFromJWTString(tokenString) ==
    IF tokenString.key # SecretKey
    THEN [val |-> "", err |-> Errorf("token error: signature is invalid")]
    ELSE IF tokenString.UserID = ""
         THEN [val |-> "", err |-> Errorf("token is valid but userID is missing")]
         ELSE [val |-> tokenString.UserID, err |-> Nil]

\* the request carries no Authorization cookie
NoCookie == [present |-> FALSE, Value |-> [UserID |-> "", key |-> ""]]

Cookie(tokenString) == [present |-> TRUE, Value |-> tokenString]

\* the Authorization cookies of the requests: none, the tokens of u1 and u2,
\* a token signed with another key, a token without a user
Cookies ==
    {NoCookie, Cookie(BuildJWTStringWithNewID("u1")),
     Cookie(BuildJWTStringWithNewID("u2")),
     Cookie([UserID |-> "u1", key |-> "forged"]),
     Cookie(BuildJWTStringWithNewID(""))}

\* mutant: a missing cookie treated as an existing one
WithAuthCookieExisted(cookie, newUserID) ==
    IF ~cookie.present \/ GetUserIDFromJWTString(cookie.Value).err # Nil
    THEN [UserID |-> newUserID, CookieExisted |-> TRUE,
          SetCookie |-> Cookie(BuildJWTStringWithNewID(newUserID))]
    ELSE [UserID |-> GetUserIDFromJWTString(cookie.Value).val,
          CookieExisted |-> TRUE, SetCookie |-> NoCookie]

\* the context WithAuth hands to the next handler and the cookie it sets
WithAuth(cookie, newUserID) ==
    IF ~cookie.present
    THEN [UserID |-> newUserID, CookieExisted |-> FALSE,
          SetCookie |-> Cookie(BuildJWTStringWithNewID(newUserID))]
    ELSE LET u == GetUserIDFromJWTString(cookie.Value)
         IN  IF u.err # Nil
             THEN [UserID |-> newUserID, CookieExisted |-> TRUE,
                   SetCookie |-> Cookie(BuildJWTStringWithNewID(newUserID))]
             ELSE [UserID |-> u.val, CookieExisted |-> TRUE,
                   SetCookie |-> NoCookie]

-----------------------------------------------------------------------------
(* The delete pipeline of DeleteUrlsAsync: a producer goroutine sends the     *)
(* codes on the unbuffered urlChannel and closes it, the goroutine running    *)
(* Storage.BatchDelete is the consumer.                                       *)

Pipe(shortURLs, userID, n0) ==
    [shortURLs |-> shortURLs,  \* the decoded request
     userID |-> userID,
     sent |-> 0,               \* codes the producer has sent
     closed |-> FALSE,         \* close(urlChannel) has run
     urlsBatch |-> <<>>,       \* BatchDelete's local urlsBatch
     returned |-> FALSE,       \* BatchDelete has returned
     chunks |-> <<>>,          \* history: the chunks given to updateBatch
     errs |-> <<>>,            \* history: what updateBatch returned for them
     acknowledged |-> TRUE,    \* the handler has answered the request
     n0 |-> n0]                \* history: the number of records at acceptance

\* m.updateBatch(urlsBatch, userID): db.Exec runs the UPDATE (ok) or fails,
\* and a failed statement changes no row
updateBatchExec(table, urlsBatch, userID, ok) ==
    IF ok
    THEN [table |-> updateBatch(table, urlsBatch, userID), err |-> Nil]
    ELSE [table |-> table, err |-> Errorf("failed to batch delete URLs: exec")]

\* mutant: the iteration without urlsBatch = urlsBatch[:0]
PgBatchDeleteRecvNoReset(table, pipe, urlID, ok) ==
    LET batch == Append(pipe.urlsBatch, urlID)
        u == updateBatchExec(table, batch, pipe.userID, ok)
    IN  IF Len(batch) = batchSize
        THEN [table |-> u.table,
              pipe |-> [pipe EXCEPT !.sent = @ + 1, !.urlsBatch = batch,
                                    !.chunks = Append(@, batch),
                                    !.errs = Append(@, u.err)]]
        ELSE [table |-> table,
              pipe |-> [pipe EXCEPT !.sent = @ + 1, !.urlsBatch = batch]]

\* mutant: the iteration that stops draining the channel when updateBatch
\* returns an error
PgBatchDeleteRecvStop(table, pipe, urlID, ok) ==
    LET batch == Append(pipe.urlsBatch, urlID)
        u == updateBatchExec(table, batch, pipe.userID, ok)
    IN  IF Len(batch) = batchSize
        THEN [table |-> u.table,
              pipe |-> [pipe EXCEPT !.sent = @ + 1, !.urlsBatch = <<>>,
                                    !.returned = (u.err # Nil),
                                    !.chunks = Append(@, batch),
                                    !.errs = Append(@, u.err)]]
        ELSE [table |-> table,
              pipe |-> [pipe EXCEPT !.sent = @ + 1, !.urlsBatch = batch]]

\* one iteration of the range loop of postgres BatchDelete on receiving urlID;
\* the error of updateBatch is dropped
PgBatchDeleteRecv(table, pipe, urlID, ok) ==
    LET batch == Append(pipe.urlsBatch, urlID)
        u == updateBatchExec(table, batch, pipe.userID, ok)
    IN  IF Len(batch) = batchSize
        THEN [table |-> u.table,
              pipe |-> [pipe EXCEPT !.sent = @ + 1, !.urlsBatch = <<>>,
                                    !.chunks = Append(@, batch),
                                    !.errs = Append(@, u.err)]]
        ELSE [table |-> table,
              pipe |-> [pipe EXCEPT !.sent = @ + 1, !.urlsBatch = batch]]

\* postgres BatchDelete after the range loop: the rest of the codes
PgBatchDeleteEnd(table, pipe, ok) ==
    LET u == updateBatchExec(table, pipe.urlsBatch, pipe.userID, ok)
    IN  IF Len(pipe.urlsBatch) > 0
        THEN [table |-> u.table,
              pipe |-> [pipe EXCEPT !.returned = TRUE,
                                    !.chunks = Append(@, pipe.urlsBatch),
                                    !.errs = Append(@, u.err)]]
        ELSE [table |-> table, pipe |-> [pipe EXCEPT !.returned = TRUE]]

\* BatchDelete of memorystorage and filestorage: an empty body
NoBatchDelete(pipe) == [pipe EXCEPT !.returned = TRUE]

\* postgres BatchDelete run by itself on a channel that delivers urls and is
\* then closed, every UPDATE succeeding
RECURSIVE PgBatchDeleteRun(_, _, _)
PgBatchDeleteRun(table, pipe, urls) ==
    IF urls = <<>> THEN PgBatchDeleteEnd(table, pipe, TRUE)
    ELSE LET r == PgBatchDeleteRecv(table, pipe, Head(urls), TRUE)
         IN  PgBatchDeleteRun(r.table, r.pipe, Tail(urls))

\* BatchDelete called with a channel that delivers urls and is then closed
BatchDelete(st, urls, userID) ==
    CASE StorageType = "memory" -> st
      [] StorageType = "file" -> st
      [] StorageType = "postgres" ->
            [st EXCEPT !.shortener =
                PgBatchDeleteRun(st.shortener, Pipe(urls, userID, 0), urls).table]

-----------------------------------------------------------------------------
(* Inputs of the actions *)

\* the sequences over S of length lo..hi
SeqsOf(S, lo, hi) == UNION {[1..n -> S] : n \in lo..hi}

\* a long request: batchSize + 1 codes, the codes in turn
LongList ==
    LET cs == <<"aaaaaaaa", "Bc7dE9fg", "ZZZZ0000">>
    IN  [i \in 1..(batchSize + 1) |-> cs[(i % 3) + 1]]

DeleteLists == SeqsOf(Codes, 0, MaxDeleteLen) \cup {LongList}

\* the candidates GenerateShortURL draws before the model stops following it
MaxDraws == 2
Draws == SeqsOf(Codes, 1, MaxDraws)

Batches(userID) ==
    {[i \in 1..Len(b) |-> URLData(userID, b[i][1], b[i][2])] :
        b \in SeqsOf(Codes \X URLs, 0, MaxBatch)}

-----------------------------------------------------------------------------
(* State machine *)

Call(op, arg, val, err, before) ==
    [op |-> op, arg |-> arg, val |-> val, err |-> err, before |-> before,
     status |-> 0, body |-> ""]

Reply(op, arg, r, before) ==
    [op |-> op, arg |-> arg, val |-> r.su, err |-> r.err, before |-> before,
     status |-> r.status, body |-> r.body]

\* the goroutines of a behaviour and the state of one that has not started
Goroutines == 1..2
Idle ==
    [op |-> "idle",        \* "Put": a call of Put, "Shorten": a shorten request
     pc |-> "idle",        \* where the goroutine stands
     urlData |-> URLData("", "", ""),  \* the record it puts
     shortURL |-> <<>>,    \* GenerateShortURL's byte slice shortURL
     asked |-> "",         \* the candidate of its last Exists call
     exists |-> FALSE,     \* what that call answered
     discarded |-> {},     \* history: the candidates Exists answered true for
     local |-> <<>>,       \* the slice append works on
     err |-> Nil]          \* what Put returned

Init ==
    /\ StorageType \in {"memory", "file", "postgres"}
    /\ RelatesURLs = <<>>
    /\ FileStorage = <<>>
    /\ file = <<>>
    /\ shortener = <<>>
    /\ pipes = <<>>
    /\ procs = [g \in Goroutines |-> Idle]
    /\ ret = Call("GetStorage", <<>>, "", Nil, <<>>)
    /\ acked = {}

\* the process runs: GetStorage ends it (logger.Fatalw) when NewManager fails
Up == ~(ret.op = "NewManager" /\ ret.err # Nil)

Install(st) ==
    /\ RelatesURLs' = st.RelatesURLs
    /\ FileStorage' = st.FileStorage
    /\ file' = st.file
    /\ shortener' = st.shortener

Room(n) == Len(Records(Storage)) + n <= MaxRecords

(* calls of the interface *)

DoPut(urlData, written) ==
    /\ Up /\ Room(1)
    /\ LET r == Put(Storage, urlData, written)
       IN  /\ Install(r.st)
           /\ ret' = Call("Put", urlData, "", r.err, Records(Storage))
           /\ acked' = IF r.err = Nil
                       THEN acked \cup {<<urlData.ShortURL, urlData.OriginalURL>>}
                       ELSE acked
    /\ UNCHANGED <<procs, StorageType, pipes>>

DoPutBatch(batchData, writes) ==
    /\ Up /\ Room(Len(batchData))
    /\ LET r == PutBatch(Storage, batchData, writes)
       IN  /\ Install(r.st)
           /\ ret' = Call("PutBatch", batchData, "", r.err, Records(Storage))
    /\ UNCHANGED <<procs, StorageType, pipes, acked>>

DoGetOriginal(shortURL) ==
    /\ Up
    /\ LET r == GetOriginal(Storage, shortURL)
       IN  ret' = Call("GetOriginal", shortURL, r.val, r.err, Records(Storage))
    /\ UNCHANGED <<procs, StorageType, RelatesURLs, FileStorage, file, shortener, pipes, acked>>

DoExists(shortURL) ==
    /\ Up
    /\ LET r == Exists(Storage, shortURL)
       IN  ret' = Call("Exists", shortURL, r.val, r.err, Records(Storage))
    /\ UNCHANGED <<procs, StorageType, RelatesURLs, FileStorage, file, shortener, pipes, acked>>

DoGetURLsByUserID(userID, order) ==
    /\ Up
    /\ LET r == GetURLsByUserID(Storage, userID, order)
       IN  ret' = Call("GetURLsByUserID", userID, r.val, r.err, Records(Storage))
    /\ UNCHANGED <<procs, StorageType, RelatesURLs, FileStorage, file, shortener, pipes, acked>>

DoBatchDelete(urls, userID) ==
    /\ Up
    /\ Install(BatchDelete(Storage, urls, userID))
    /\ ret' = Call("BatchDelete", <<urls, userID>>, "", Nil, Records(Storage))
    /\ UNCHANGED <<procs, StorageType, pipes, acked>>

DoGetStats ==
    /\ Up /\ StorageType \in {"memory", "file"}
    /\ LET r == GetStats(Storage)
       IN  ret' = Call("GetStats", <<>>, r.val, r.err, Records(Storage))
    /\ UNCHANGED <<procs, StorageType, RelatesURLs, FileStorage, file, shortener, pipes,
                   acked>>

\* Close, then NewManager on the same file (filestorage)
Reopen ==
    /\ Up /\ StorageType = "file"
    /\ \A p \in 1..Len(pipes) : pipes[p].returned
    /\ LET m == FileNewManager(file)
       IN  /\ FileStorage' = m.fs
           /\ ret' = Call("NewManager", <<>>, m.ok, m.err, FileStorage)
    /\ UNCHANGED <<procs, StorageType, RelatesURLs, file, shortener, pipes, acked>>

(* requests *)

\* draws are the candidates GenerateShortURL draws in this request: it
\* returns on the last of them
Drawn(draws) ==
    LET g == GenerateShortURL(Storage, draws)
    IN  g.done /\ g.left = <<>>

DoURLWaiter(method, body, userID, draws, written) ==
    /\ Up /\ Room(1)
    /\ (method = "POST" /\ ValidateURL(body)) => Drawn(draws)
    /\ LET r == URLWaiter(Storage, method, body, userID, draws, written)
       IN  /\ Install(r.st)
           /\ ret' = Reply("URLWaiter", <<method, body, userID>>, r, Records(Storage))
           /\ acked' = IF r.status = 201 THEN acked \cup {<<r.su, body>>} ELSE acked
    /\ UNCHANGED <<procs, StorageType, pipes>>

DoShorten(url, userID, draws, written) ==
    /\ Up /\ Room(1)
    /\ ValidateURL(url) => Drawn(draws)
    /\ LET r == Shorten(Storage, url, userID, draws, written)
       IN  /\ Install(r.st)
           /\ ret' = Reply("Shorten", <<"POST", url, userID>>, r, Records(Storage))
           /\ acked' = IF r.status = 201 THEN acked \cup {<<r.su, url>>} ELSE acked
    /\ UNCHANGED <<procs, StorageType, pipes>>

\* a batch request; draws are the candidates its calls of GenerateShortURL
\* draw, the last of them the one GenerateShortBatch returns on
DoShortenBatch(batchRequest, userID, draws, fail, writes) ==
    /\ Up /\ Room(Len(batchRequest))
    /\ LET r == ShortenBatch(Storage, batchRequest, userID, draws, fail, writes)
       IN  /\ r.gen.done /\ r.gen.left = <<>>
           /\ Install(r.st)
           /\ ret' = [Call("ShortenBatch", <<batchRequest, userID, draws, fail>>,
                           r.gen, r.err, Records(Storage))
                      EXCEPT !.status = r.status, !.body = r.body]
    /\ UNCHANGED <<procs, StorageType, pipes, acked>>

\* DeleteUrlsAsync: 401 when the cookie was created by this request, else 202
\* and the two goroutines are started
DoDeleteUrlsAsync(userID, cookieExisted, shortURLs) ==
    /\ Up /\ Len(pipes) < MaxDeletes
    /\ IF ~cookieExisted
       THEN /\ ret' = [Call("DeleteUrlsAsync", <<userID, shortURLs>>, "", Nil,
                            Records(Storage))
                       EXCEPT !.status = 401,
                              !.body = "Unauthorized - cookie was created by request"]
            /\ pipes' = pipes
       ELSE /\ ret' = [Call("DeleteUrlsAsync", <<userID, shortURLs>>, "", Nil,
                            Records(Storage))
                       EXCEPT !.status = 202]
            /\ pipes' = Append(pipes, Pipe(shortURLs, userID, Len(Records(Storage))))
    /\ UNCHANGED <<procs, StorageType, RelatesURLs, FileStorage, file, shortener, acked>>

\* WithAuth(DeleteUrlsAsync): the request as the router serves it
ServeDeleteUrlsAsync(cookie, shortURLs) ==
    LET a == WithAuth(cookie, NewUserID)
    IN  DoDeleteUrlsAsync(a.UserID, a.CookieExisted, shortURLs)

\* DeleteUrlsAsync of the gRPC server: InvalidArgument for an empty list,
\* else the two goroutines are started; the response is returned after that
GrpcDeleteUrlsAsync(userID, shortURLs) ==
    /\ Up /\ Len(pipes) < MaxDeletes
    /\ IF Len(shortURLs) = 0
       THEN /\ ret' = Call("grpc.DeleteUrlsAsync", <<userID, shortURLs>>, "",
                           Errorf("No URLs provided for deletion"), Records(Storage))
            /\ pipes' = pipes
       ELSE /\ ret' = Call("grpc.DeleteUrlsAsync.go", <<userID, shortURLs>>, "", Nil,
                           Records(Storage))
            /\ pipes' = Append(pipes, [Pipe(shortURLs, userID, Len(Records(Storage)))
                                          EXCEPT !.acknowledged = FALSE])
    /\ UNCHANGED <<procs, StorageType, RelatesURLs, FileStorage, file, shortener, acked>>

\* return &pb.DeleteUrlsAsyncResponse{Success: true}, nil
GrpcRespond(p) ==
    /\ Up /\ ~pipes[p].acknowledged
    /\ pipes' = [pipes EXCEPT ![p].acknowledged = TRUE]
    /\ ret' = Call("grpc.DeleteUrlsAsync", <<pipes[p].userID, pipes[p].shortURLs>>,
                   "success", Nil, Records(Storage))
    /\ UNCHANGED <<procs, StorageType, RelatesURLs, FileStorage, file, shortener, acked>>

DoURLReturner(method, shortURL) ==
    /\ Up
    /\ LET r == URLReturner(Storage, method, shortURL)
       IN  ret' = [Call("URLReturner", <<method, shortURL>>, r.Location, Nil,
                        Records(Storage))
                   EXCEPT !.status = r.status, !.body = r.body]
    /\ UNCHANGED <<procs, StorageType, RelatesURLs, FileStorage, file, shortener, pipes,
                   acked>>

(* goroutines of the delete pipeline *)

\* urlChannel <- shortURL meets urlID := range urlChannel (postgres); ok is
\* the outcome of the UPDATE when this code fills the batch
Send(p, ok) ==
    /\ Up /\ StorageType = "postgres"
    /\ ~pipes[p].returned /\ pipes[p].sent < Len(pipes[p].shortURLs)
    /\ LET urlID == pipes[p].shortURLs[pipes[p].sent + 1]
           r == PgBatchDeleteRecv(shortener, pipes[p], urlID, ok)
       IN  /\ shortener' = r.table
           /\ pipes' = [pipes EXCEPT ![p] = r.pipe]
           /\ ret' = Call("BatchDelete.recv", <<p, urlID>>, "", Nil, Records(Storage))
    /\ UNCHANGED <<procs, StorageType, RelatesURLs, FileStorage, file, acked>>

\* close(urlChannel)
CloseChannel(p) ==
    /\ Up
    /\ ~pipes[p].closed /\ pipes[p].sent = Len(pipes[p].shortURLs)
    /\ pipes' = [pipes EXCEPT ![p].closed = TRUE]
    /\ ret' = Call("close", p, "", Nil, Records(Storage))
    /\ UNCHANGED <<procs, StorageType, RelatesURLs, FileStorage, file, shortener, acked>>

\* the range loop of postgres BatchDelete ends on the closed channel; ok is
\* the outcome of the UPDATE of the rest
EndBatchDelete(p, ok) ==
    /\ Up /\ StorageType = "postgres"
    /\ ~pipes[p].returned /\ pipes[p].closed
    /\ LET r == PgBatchDeleteEnd(shortener, pipes[p], ok)
       IN  /\ shortener' = r.table
           /\ pipes' = [pipes EXCEPT ![p] = r.pipe]
           /\ ret' = Call("BatchDelete.return", p, "", Nil, Records(Storage))
    /\ UNCHANGED <<procs, StorageType, RelatesURLs, FileStorage, file, acked>>

\* BatchDelete of memorystorage and filestorage returns at once
ReturnBatchDelete(p) ==
    /\ Up /\ StorageType \in {"memory", "file"}
    /\ ~pipes[p].returned
    /\ pipes' = [pipes EXCEPT ![p] = NoBatchDelete(pipes[p])]
    /\ ret' = Call("BatchDelete.return", p, "", Nil, Records(Storage))
    /\ UNCHANGED <<procs, StorageType, RelatesURLs, FileStorage, file, shortener, acked>>

\* a step of a pipeline whose UPDATEs succeed
PipeStep ==
    \E p \in 1..Len(pipes) :
        \/ Send(p, TRUE)
        \/ CloseChannel(p)
        \/ EndBatchDelete(p, TRUE)
        \/ ReturnBatchDelete(p)

\* a step of pipeline p whose UPDATEs succeed or fail
PipeStepOf(p) ==
    /\ p <= Len(pipes)
    /\ \/ \E ok \in BOOLEAN : Send(p, ok)
       \/ CloseChannel(p)
       \/ \E ok \in BOOLEAN : EndBatchDelete(p, ok)
       \/ ReturnBatchDelete(p)

PipeStepExec == \E p \in 1..MaxDeletes : PipeStepOf(p)

(* goroutines: calls of Put and shorten requests taken step by step *)

\* a caller calls Put(urlData)
GoPut(g, urlData) ==
    /\ Up /\ procs[g].pc = "idle"
    /\ procs' = [procs EXCEPT ![g] = [Idle EXCEPT !.op = "Put", !.pc = "put",
                                                  !.urlData = urlData]]
    /\ UNCHANGED <<StorageType, RelatesURLs, FileStorage, file, shortener, pipes, ret,
                   acked>>

\* a shorten request with a valid URL comes to GenerateShortURL
GoShorten(g, url, userID) ==
    /\ Up /\ procs[g].pc = "idle"
    /\ procs' = [procs EXCEPT ![g] = [Idle EXCEPT !.op = "Shorten", !.pc = "fill",
                                                  !.urlData = URLData(userID, "", url)]]
    /\ UNCHANGED <<StorageType, RelatesURLs, FileStorage, file, shortener, pipes, ret,
                   acked>>

\* GenerateShortURL fills shortURL with a candidate
FillShortURL(g, ix) ==
    /\ Up /\ procs[g].pc = "fill"
    /\ procs' = [procs EXCEPT ![g].shortURL = Fill(ix), ![g].pc = "exists"]
    /\ UNCHANGED <<StorageType, RelatesURLs, FileStorage, file, shortener, pipes, ret,
                   acked>>

\* GenerateShortURL asks storage.Exists(string(shortURL)): it goes round the
\* loop when the candidate exists and returns it when it does not (Exists of
\* the three backends returns no error here)
AskExists(g) ==
    /\ Up /\ procs[g].pc = "exists"
    /\ LET candidate == String(procs[g].shortURL)
           e == Exists(Storage, candidate)
       IN  procs' = [procs EXCEPT
                ![g].asked = candidate,
                ![g].exists = e.val,
                ![g].discarded = IF e.val THEN @ \cup {candidate} ELSE @,
                ![g].urlData.ShortURL = IF e.val THEN @ ELSE candidate,
                ![g].pc = IF e.val THEN "fill" ELSE "put"]
    /\ UNCHANGED <<StorageType, RelatesURLs, FileStorage, file, shortener, pipes, ret,
                   acked>>

\* the slice a Put of memorystorage or filestorage appends to
Slice == IF StorageType = "file" THEN FileStorage ELSE RelatesURLs

\* append(m.RelatesURLs, urlData), append(*fm.FileStorage, data): the slice
\* is read
PutLoad(g) ==
    /\ Up /\ StorageType \in {"memory", "file"}
    /\ procs[g].pc = "put"
    /\ procs' = [procs EXCEPT ![g].local = Slice, ![g].pc = "append"]
    /\ UNCHANGED <<StorageType, RelatesURLs, FileStorage, file, shortener, pipes, ret,
                   acked>>

\* the record is appended to the slice that was read
PutAppend(g) ==
    /\ Up /\ procs[g].pc = "append"
    /\ procs' = [procs EXCEPT ![g].local = Append(@, procs[g].urlData),
                               ![g].pc = "store"]
    /\ UNCHANGED <<StorageType, RelatesURLs, FileStorage, file, shortener, pipes, ret,
                   acked>>

\* the result is assigned to the field; Put of memorystorage returns nil
PutStore(g) ==
    /\ Up /\ procs[g].pc = "store"
    /\ IF StorageType = "memory"
       THEN /\ RelatesURLs' = procs[g].local
            /\ procs' = [procs EXCEPT ![g].pc = "done"]
            /\ UNCHANGED FileStorage
       ELSE /\ FileStorage' = procs[g].local
            /\ procs' = [procs EXCEPT ![g].pc = "write"]
            /\ UNCHANGED RelatesURLs
    /\ UNCHANGED <<StorageType, file, shortener, pipes, ret, acked>>

\* Put of filestorage calls WriteURL and returns its error
PutWrite(g) ==
    /\ Up /\ procs[g].pc = "write"
    /\ LET w == WriteURL(file, procs[g].urlData, TRUE)
       IN  /\ file' = w.file
           /\ procs' = [procs EXCEPT ![g].err = w.err, ![g].pc = "done"]
    /\ UNCHANGED <<StorageType, RelatesURLs, FileStorage, shortener, pipes, ret, acked>>

\* Put of postgres: one statement
PutExec(g) ==
    /\ Up /\ StorageType = "postgres"
    /\ procs[g].pc = "put"
    /\ LET r == PgPut(shortener, procs[g].urlData)
       IN  /\ shortener' = r.table
           /\ procs' = [procs EXCEPT ![g].err = r.err, ![g].pc = "done"]
    /\ UNCHANGED <<StorageType, RelatesURLs, FileStorage, file, pipes, ret, acked>>

\* the steps of GenerateShortURL
GenerateStep(g) ==
    \/ \E ix \in RandIntn : FillShortURL(g, ix)
    \/ AskExists(g)

\* the steps of Put
PutStep(g) ==
    \/ PutLoad(g)
    \/ PutAppend(g)
    \/ PutStore(g)
    \/ PutWrite(g)
    \/ PutExec(g)

\* the calls and requests, W the outcomes a journal write may have
Calls(W) ==
    \/ \E c \in Codes, u \in URLs, o \in Owners, w \in W :
          DoPut(URLData(o, c, u), w)
    \/ \E o \in Owners : \E b \in Batches(o) : \E ws \in [1..Len(b) -> W] :
          DoPutBatch(b, ws)
    \/ \E c \in Codes : DoGetOriginal(c)
    \/ \E c \in Codes : DoExists(c)
    \/ \E o \in Owners : \E order \in Orders(Len(shortener)) :
          DoGetURLsByUserID(o, order)
    \/ \E o \in Owners, l \in DeleteLists : DoBatchDelete(l, o)

\* the request bodies: the URLs and two bodies urlRegex rejects
Bodies == URLs \cup {"", "example.com"}

\* the requests that end before GenerateShortURL: a wrong method, a body
\* that is no URL
Rejected ==
    {<<"GET", "https://example.com", "u1">>, <<"POST", "", "u1">>,
     <<"POST", "example.com", "u2">>}

\* the draws and the write outcome matter to a request that reaches
\* GenerateShortURL only
ShortenRequests(W) ==
    \/ \E u \in URLs, o \in UserIDs, d \in Draws, w \in W :
          DoURLWaiter("POST", u, o, d, w)
    \/ \E r \in Rejected : DoURLWaiter(r[1], r[2], r[3], <<>>, TRUE)
    \/ \E u \in URLs, o \in UserIDs, d \in Draws, w \in W : DoShorten(u, o, d, w)
    \/ \E r \in Rejected : r[1] = "POST" /\ DoShorten(r[2], r[3], <<>>, TRUE)

DeleteRequests ==
    \/ \E l \in DeleteLists : DoDeleteUrlsAsync("u1", TRUE, l)
    \/ DoDeleteUrlsAsync("u2", FALSE, <<"aaaaaaaa">>)

GrpcRequests ==
    \/ \E l \in DeleteLists : GrpcDeleteUrlsAsync("u1", l)
    \/ \E p \in 1..Len(pipes) : GrpcRespond(p)

ReturnRequests ==
    \/ \E c \in Codes : DoURLReturner("GET", c)
    \/ DoURLReturner("POST", "aaaaaaaa")

\* the requests that store the records the other requests work on
Seed ==
    \E u \in URLs, o \in UserIDs, d \in Draws : DoURLWaiter("POST", u, o, d, TRUE)

Next == Calls({TRUE}) \/ ShortenRequests({TRUE}) \/ Reopen

Spec == Init /\ [][Next]_vars

NextHandlers == ShortenRequests({TRUE}) \/ DeleteRequests \/ PipeStep

SpecHandlers == Init /\ [][NextHandlers]_vars

\* the HTTP and gRPC delete handlers with their goroutines, and URLReturner
NextDelete == Seed \/ DeleteRequests \/ GrpcRequests \/ PipeStep \/ ReturnRequests

SpecDelete == Init /\ [][NextDelete]_vars

\* the delete requests as the router serves them, behind WithAuth
AuthDeleteRequests ==
    \E c \in Cookies, l \in DeleteLists : ServeDeleteUrlsAsync(c, l)

\* the delete pipeline by itself: the requests behind WithAuth, the UPDATEs
\* succeed or fail, and a goroutine that can take a step takes one in the end
NextPipeline == Seed \/ AuthDeleteRequests \/ PipeStepExec

SpecPipeline ==
    /\ Init /\ [][NextPipeline]_vars
    /\ \A p \in 1..MaxDeletes : WF_vars(PipeStepOf(p))

\* records put by another caller before and while a request is served
SeedPut ==
    \E c \in Codes, u \in URLs : DoPut(URLData("u2", c, u), TRUE)

\* one shorten request served step by step; a goroutine that can take a
\* step takes one in the end
NextGenerate ==
    \/ SeedPut
    \/ \E u \in URLs : GoShorten(1, u, "u1")
    \/ GenerateStep(1)
    \/ PutStep(1)

SpecGenerate ==
    /\ Init /\ [][NextGenerate]_vars
    /\ WF_vars(GenerateStep(1)) /\ WF_vars(PutStep(1))

\* the batch requests: up to MaxBatch items, one of them no URL
BatchRequests ==
    SeqsOf({ShortenBatchRequest("1", "https://example.com"),
            ShortenBatchRequest("2", "https://example.com"),
            ShortenBatchRequest("3", "example.com")}, 0, MaxBatch)

\* the candidates drawn while a batch is served: a candidate may be drawn
\* again
BatchDraws == SeqsOf({"aaaaaaaa", "Bc7dE9fg"}, 0, MaxBatch + 1)

\* the call of Exists that fails while a batch is served (0: none); Exists
\* fails on postgres only
ExistsFaults == IF StorageType = "postgres" THEN 0..(MaxBatch + 1) ELSE {0}

\* the outcomes of the journal writes of a batch; only filestorage writes
JournalWrites ==
    IF StorageType = "file" THEN [1..MaxBatch -> BOOLEAN]
    ELSE {[i \in 1..MaxBatch |-> TRUE]}

\* batch requests on a storage other callers put records in; a call of
\* Exists or a journal write may fail
NextBatch ==
    \/ SeedPut
    \/ \E b \in BatchRequests, d \in BatchDraws, f \in ExistsFaults,
          ws \in JournalWrites : DoShortenBatch(b, "u1", d, f, ws)

SpecBatch == Init /\ [][NextBatch]_vars

\* the user of the calls and requests goroutine g serves
UserOf(g) == IF g = 1 THEN "u1" ELSE "u2"

\* two goroutines serve a call of Put or a shorten request each, while other
\* callers read
NextConcurrent ==
    \/ \E g \in Goroutines, c \in Codes, u \in URLs :
          GoPut(g, URLData(UserOf(g), c, u))
    \/ \E g \in Goroutines, u \in URLs : GoShorten(g, u, UserOf(g))
    \/ \E g \in Goroutines : GenerateStep(g)
    \/ \E g \in Goroutines : PutStep(g)
    \/ \E c \in Codes : DoExists(c)
    \/ \E c \in Codes : DoGetOriginal(c)

SpecConcurrent == Init /\ [][NextConcurrent]_vars

\* the owners of the records GetStats counts: a record may have none
StatOwners == {"", "u1", "u2"}

\* Put, PutBatch (the journal writes may fail), BatchDelete, a restart and
\* GetStats
NextStats ==
    \/ \E c \in Codes, u \in URLs, o \in StatOwners, w \in BOOLEAN :
          DoPut(URLData(o, c, u), w)
    \/ \E b \in Batches("u1") : \E ws \in [1..Len(b) -> BOOLEAN] : DoPutBatch(b, ws)
    \/ \E l \in DeleteLists : DoBatchDelete(l, "u1")
    \/ Reopen
    \/ DoGetStats

SpecStats == Init /\ [][NextStats]_vars

NextFault == Calls(BOOLEAN) \/ ShortenRequests(BOOLEAN) \/ Reopen

SpecFault == Init /\ [][NextFault]_vars

-----------------------------------------------------------------------------
(* Properties *)

Stored == Records(Storage)

CodesOf(recs) == {recs[i].ShortURL : i \in 1..Len(recs)}

Tombstoned(shortURL) ==
    \E i \in 1..Len(Stored) : Stored[i].ShortURL = shortURL /\ Stored[i].DeletedFlag

\* C1: round trip, on every backend: for every Put(code, url, owner) that
\* returned nil, as long as no record holding code is tombstoned,
\* GetOriginal(code) returns url and no error.
RoundTrip ==
    Up =>
        \A a \in acked :
            ~Tombstoned(a[1]) =>
                GetOriginal(Storage, a[1]) = [val |-> a[2], err |-> Nil]

\* C2: uniqueness: the records stored by a sequence of shorten requests on a
\* fresh backend hold pairwise distinct short codes.
Uniqueness ==
    \A i, j \in 1..Len(Stored) : i # j => Stored[i].ShortURL # Stored[j].ShortURL

\* two records are stored, the second by a request that was answered 201
UniquenessWitness ==
    /\ Len(Stored) >= 2
    /\ ret.op \in {"URLWaiter", "Shorten"} /\ ret.status = 201
    /\ ret.val = Stored[Len(Stored)].ShortURL

\* C3: conflict idempotence (postgres): a Put of a URL that an earlier
\* successful Put stored under code1, asked with another code, returns
\* OriginalExistError carrying code1; URLWaiter and Shorten then answer 409
\* with BaseURL/code1.
ConflictIdempotence ==
    StorageType = "postgres" =>
        \A a \in acked :
            /\ (ret.op = "Put" /\ ret.arg.OriginalURL = a[2]
                               /\ ret.arg.ShortURL # a[1]) =>
                    /\ ret.err.type = "OriginalExistError"
                    /\ ret.err.ShortURL = a[1]
            /\ (ret.op = "URLWaiter" /\ ret.arg = <<"POST", a[2], ret.arg[3]>>
                                     /\ ret.val # a[1]) =>
                    /\ ret.status = 409
                    /\ ret.body = "http://localhost:8080/" \o a[1]
            /\ (ret.op = "Shorten" /\ ret.arg = <<"POST", a[2], ret.arg[3]>>
                                   /\ ret.val # a[1]) =>
                    /\ ret.status = 409
                    /\ ret.body = "{\"result\":\"http://localhost:8080/" \o a[1] \o "\"}"

\* a Put of a stored URL, asked with a code other than the stored one, was
\* answered with the conflict
ConflictWitness ==
    /\ StorageType = "postgres"
    /\ ret.op = "Put" /\ ret.err.type = "OriginalExistError"
    /\ ret.err.ShortURL # ret.arg.ShortURL
    /\ <<ret.err.ShortURL, ret.arg.OriginalURL>> \in acked

\* the request of pipe asks for the record and owns it
Matches(pipe, rec) ==
    rec.ShortURL \in Range(pipe.shortURLs) /\ rec.UserID = pipe.userID

Min(a, b) == IF a < b THEN a ELSE b

URLsOf(recs) == {recs[i].OriginalURL : i \in 1..Len(recs)}

\* the entry of the listing that renders rec
Listed(rec) ==
    [UserID |-> "", ShortURL |-> "http://localhost:8080/" \o rec.ShortURL,
     OriginalURL |-> rec.OriginalURL, DeletedFlag |-> FALSE]

\* C5: batch atomicity (postgres): a PutBatch that returns an error leaves
\* the stored records as they were, so no record of the batch that was not
\* stored before is found by Exists, GetOriginal or GetURLsByUserID; a
\* PutBatch that returns nil has every record of the batch stored, found by
\* Exists and GetOriginal and listed for its owner.
BatchAtomicity ==
    (StorageType = "postgres" /\ ret.op = "PutBatch") =>
        /\ ret.err # Nil =>
              /\ Stored = ret.before
              /\ \A k \in 1..Len(ret.arg) :
                    ret.arg[k].ShortURL \notin CodesOf(ret.before) =>
                        /\ ~Exists(Storage, ret.arg[k].ShortURL).val
                        /\ GetOriginal(Storage, ret.arg[k].ShortURL).err = ErrNotFound
                        /\ \A order \in Orders(Len(shortener)) :
                              Listed(ret.arg[k]) \notin
                                Range(GetURLsByUserID(Storage, ret.arg[k].UserID,
                                                      order).val)
        /\ ret.err = Nil =>
              /\ Stored = ret.before \o ret.arg
              /\ \A k \in 1..Len(ret.arg) :
                    /\ Exists(Storage, ret.arg[k].ShortURL).val
                    /\ GetOriginal(Storage, ret.arg[k].ShortURL)
                          = [val |-> ret.arg[k].OriginalURL, err |-> Nil]
                    /\ \A order \in Orders(Len(shortener)) :
                          Listed(ret.arg[k]) \in
                            Range(GetURLsByUserID(Storage, ret.arg[k].UserID,
                                                  order).val)

\* a batch of two failed on its second record; its first record could have
\* been inserted
BatchAtomicityWitness ==
    /\ StorageType = "postgres" /\ ret.op = "PutBatch" /\ ret.err # Nil
    /\ Len(ret.arg) = 2
    /\ ret.arg[1].ShortURL \notin CodesOf(ret.before)
    /\ ret.arg[1].OriginalURL \notin URLsOf(ret.before)

\* C6: PutBatch is atomic on every backend: after a PutBatch that returned
\* an error no record of the batch is stored: the records are those stored
\* before, and Exists finds no code of the batch that was not stored before.
PutBatchAtomicEverywhere ==
    (ret.op = "PutBatch" /\ ret.err # Nil) =>
        /\ Stored = ret.before
        /\ \A k \in 1..Len(ret.arg) :
              ret.arg[k].ShortURL \notin CodesOf(ret.before) =>
                  ~Exists(Storage, ret.arg[k].ShortURL).val

\* C7: journal replay (filestorage): Close followed by NewManager on the
\* same file succeeds and yields the collection the backend held before,
\* record for record and in the same order.
JournalReplay ==
    ret.op = "NewManager" =>
        /\ ret.err = Nil
        /\ FileStorage = ret.before

\* C8: owner scoping of the listing, on every backend: GetURLsByUserID(x)
\* fails exactly when no record of x is stored, and otherwise returns one
\* entry, BaseURL/code and the original URL, for every record of x and no
\* other entry.
OwnerScoping ==
    ret.op = "GetURLsByUserID" =>
        LET mine == {i \in 1..Len(ret.before) : ret.before[i].UserID = ret.arg}
        IN  /\ ret.err = Nil <=> mine # {}
            /\ Len(ret.val) = Cardinality(mine)
            /\ \E f \in [1..Len(ret.val) -> mine] :
                  /\ \A k, l \in 1..Len(ret.val) : k # l => f[k] # f[l]
                  /\ \A k \in 1..Len(ret.val) : ret.val[k] = Listed(ret.before[f[k]])

\* a listing was returned while a record of another owner is stored
OwnerScopingWitness ==
    /\ ret.op = "GetURLsByUserID" /\ ret.err = Nil
    /\ Len(ret.val) >= 1
    /\ \E i \in 1..Len(ret.before) : ret.before[i].UserID # ret.arg

\* C9: GetURLsByUserID returns no tombstoned record: the listing of x holds
\* no entry of a record of x that BatchDelete has tombstoned.
ListingHidesTombstones ==
    ret.op = "GetURLsByUserID" =>
        \A i \in 1..Len(ret.before) :
            (ret.before[i].UserID = ret.arg /\ ret.before[i].DeletedFlag) =>
                Listed(ret.before[i]) \notin Range(ret.val)

\* C10: tombstoning on the memory backend: once BatchDelete has returned,
\* for a record that was stored by its owner when the request was accepted
\* and whose code the request lists, GetOriginal reports the record
\* deleted.
MemoryTombstoning ==
    StorageType = "memory" =>
        \A p \in 1..Len(pipes) :
            pipes[p].returned =>
                \A i \in 1..Min(pipes[p].n0, Len(Stored)) :
                    Matches(pipes[p], Stored[i]) =>
                        GetOriginal(Storage, Stored[i].ShortURL)
                            = [val |-> "", err |-> ErrDeleted]

\* C11: acknowledgment precedes deletion: for every accepted delete request,
\* of the HTTP and of the gRPC handler, BatchDelete gives a chunk of the
\* request to updateBatch only after the handler has answered (202 written,
\* success response returned).
AckPrecedesDeletion ==
    \A p \in 1..Len(pipes) :
        pipes[p].chunks # <<>> => pipes[p].acknowledged

\* C16: URLReturner answers a request that is not GET with 400, and a GET
\* with 404 "URL not found" when no record holds the code, 410 when the
\* record holding the code is tombstoned, and 307 with the original URL as
\* Location when the code is stored and not tombstoned.
URLReturnerOutcomes ==
    ret.op = "URLReturner" =>
        LET holders == {i \in 1..Len(ret.before) :
                            ret.before[i].ShortURL = ret.arg[2]}
        IN  IF ret.arg[1] # "GET" THEN ret.status = 400
            ELSE /\ holders = {} =>
                        ret.status = 404 /\ ret.body = "URL not found"
                 /\ \A i \in holders :
                        IF ret.before[i].DeletedFlag
                        THEN ret.status = 410
                        ELSE /\ ret.status = 307
                             /\ ret.val = ret.before[i].OriginalURL

\* a GET of a tombstoned code was answered, while another record is stored
URLReturnerWitness ==
    /\ ret.op = "URLReturner" /\ ret.status = 410
    /\ \E i \in 1..Len(ret.before) :
          ret.before[i].ShortURL = ret.arg[2] /\ ret.before[i].DeletedFlag
    /\ Len(ret.before) = 2

\* C12: whenever GenerateShortURL returns a code, the code has 8 characters,
\* each of the 62 of a-z A-Z 0-9, it is the candidate of the last Exists
\* call, that call answered false, and it is none of the candidates Exists
\* answered true for.
GeneratedCode ==
    \A g \in Goroutines :
        (procs[g].op = "Shorten" /\ procs[g].pc \notin {"fill", "exists"}) =>
            LET code == procs[g].urlData.ShortURL
                bytes == procs[g].shortURL
            IN  /\ code = String(bytes)
                /\ Len(bytes) = 8 /\ Len(code) = 8
                /\ \A i \in 1..Len(bytes) : bytes[i] \in Range(charset)
                /\ Cardinality(Range(charset)) = 62
                /\ procs[g].asked = code /\ ~procs[g].exists
                /\ code \notin procs[g].discarded

\* GenerateShortURL returned a code after it had discarded a candidate
GeneratedCodeWitness ==
    /\ procs[1].op = "Shorten" /\ procs[1].pc = "put"
    /\ procs[1].discarded # {}
    /\ procs[1].urlData.ShortURL \in Codes

\* C13: GenerateShortURL always terminates: a request that has come to the
\* loop leaves it in the end, also when Exists answers true for every
\* candidate.
GenerateTerminates ==
    (procs[1].pc = "fill") ~> (procs[1].pc \notin {"fill", "exists"})

\* C14: no lost update on memorystorage and filestorage: once two concurrent
\* calls of Put with distinct codes have both returned nil, both records are
\* in the collection.
NoLostUpdate ==
    (/\ StorageType \in {"memory", "file"}
     /\ \A g \in Goroutines :
           procs[g].op = "Put" /\ procs[g].pc = "done" /\ procs[g].err = Nil
     /\ procs[1].urlData.ShortURL # procs[2].urlData.ShortURL)
        => \A g \in Goroutines : procs[g].urlData \in Range(Stored)

\* C15: uniqueness under concurrency: when the records are stored by
\* concurrent shorten requests (GenerateShortURL's Exists, then Put), no two
\* stored records hold the same code.
UniquenessConcurrent ==
    (\A g \in Goroutines : procs[g].op \in {"idle", "Shorten"}) =>
        \A i, j \in 1..Len(Stored) :
            Stored[i].ShortURL = Stored[j].ShortURL => i = j

\* the request was a POST of a body that is a URL
ValidPost == ret.arg[1] = "POST" /\ ret.arg[2] \in URLs

\* the answer of URLWaiter to a request that is no POST or whose body is
\* no URL: 400 with the message, and no record is added
URLWaiterRejects ==
    /\ ret.arg[1] # "POST" =>
          /\ ret.status = 400 /\ ret.body = "only POST method is allowed"
          /\ Stored = ret.before
    /\ (ret.arg[1] = "POST" /\ ret.arg[2] \notin URLs) =>
          /\ ret.status = 400 /\ ret.body = "wrong parameters"
          /\ Stored = ret.before

\* the answer is 201 with BaseURL/code, code has 8 characters and is stored
\* for the URL of the request
URLWaiterCreated ==
    /\ ret.status = 201
    /\ Len(ret.val) = 8 /\ ret.val \in Codes
    /\ ret.body = "http://localhost:8080/" \o ret.val
    /\ GetOriginal(Storage, ret.val) = [val |-> ret.arg[2], err |-> Nil]
    /\ \E i \in 1..Len(Stored) :
          Stored[i].ShortURL = ret.val /\ Stored[i].OriginalURL = ret.arg[2]

OwnersOf(recs) == {recs[i].UserID : i \in 1..Len(recs)} \ {""}

\* C18: GetStats of memorystorage and filestorage: Urls is the number of
\* records stored by the Put and PutBatch calls that returned nil (a call
\* that returned nil adds its records, any other step adds none; a restart
\* replays the journal), Users is the number of distinct non-empty owners of
\* the records, and neither value ever decreases.
StatsCount ==
    [][(StorageType \in {"memory", "file"} /\ Up /\ Up') =>
          LET n == GetStats(Storage).val.Urls
              m == GetStats(Storage)'.val.Urls
          IN  /\ m >= n
              /\ GetStats(Storage)'.val.Users >= GetStats(Storage).val.Users
              /\ GetStats(Storage)'.val.Users = Cardinality(OwnersOf(Stored'))
              /\ ret'.op = "Put" => m = n + (IF ret'.err = Nil THEN 1 ELSE 0)
              /\ ret'.op = "PutBatch" =>
                    m = n + (IF ret'.err = Nil THEN Len(ret'.arg) ELSE 0)
              /\ ret'.op = "NewManager" => m = Len(file)
              /\ ret'.op \notin {"Put", "PutBatch", "NewManager"} => m = n
              /\ ret'.op = "GetStats" =>
                    ret'.val = [Urls |-> n, Users |-> Cardinality(OwnersOf(Stored))]
      ]_vars

\* C19: durability ordering of filestorage: at every state the journal
\* holds a line for every record whose Put returned nil, and a restart
\* (NewManager on the journal) succeeds and recovers every such record.
JournalDurability ==
    StorageType = "file" =>
        /\ \A a \in acked :
              \E k \in 1..Len(file) :
                  /\ Unmarshal(file[k]).ShortURL = a[1]
                  /\ Unmarshal(file[k]).OriginalURL = a[2]
        /\ ret.op = "NewManager" =>
              /\ ret.err = Nil
              /\ \A a \in acked :
                    \E i \in 1..Len(FileStorage) :
                        /\ FileStorage[i].ShortURL = a[1]
                        /\ FileStorage[i].OriginalURL = a[2]

\* the chunks of a pipeline one after another
RECURSIVE Flat(_)
Flat(chunks) ==
    IF chunks = <<>> THEN <<>> ELSE Head(chunks) \o Flat(Tail(chunks))

\* C20: chunking of postgres BatchDelete: while it runs, the chunks given to
\* updateBatch, one after another and followed by the codes not yet
\* flushed, are the codes received so far, in order; every chunk holds 10
\* codes but the last, which holds 1 to 10; once BatchDelete has returned
\* the chunks are the whole list, and none was issued for an empty list.
Chunking ==
    StorageType = "postgres" =>
        \A p \in 1..Len(pipes) :
            LET pipe == pipes[p]
                n == Len(pipe.chunks)
            IN  /\ ~pipe.returned =>
                      Flat(pipe.chunks) \o pipe.urlsBatch
                          = SubSeq(pipe.shortURLs, 1, pipe.sent)
                /\ \A k \in 1..n :
                      /\ Len(pipe.chunks[k]) \in 1..10
                      /\ (k < n \/ ~pipe.returned) => Len(pipe.chunks[k]) = 10
                /\ pipe.returned => Flat(pipe.chunks) = pipe.shortURLs
                /\ Len(pipe.shortURLs) = 0 => n = 0

\* BatchDelete returned after a full chunk and a last one of a single code
ChunkingWitness ==
    /\ StorageType = "postgres"
    /\ \E p \in 1..Len(pipes) :
          /\ pipes[p].returned
          /\ Len(pipes[p].chunks) = 2
          /\ Len(pipes[p].chunks[2]) = 1

\* C21: delete pipeline liveness, on every backend: after DeleteUrlsAsync
\* has accepted a request with at least one code, under fair scheduling the
\* producer sends every code and closes the channel and BatchDelete
\* returns; no goroutine stays blocked on the channel.
PipelineCompletes ==
    \A p \in 1..MaxDeletes :
        (p <= Len(pipes) /\ Len(pipes[p].shortURLs) >= 1)
            ~> (/\ p <= Len(pipes)
                /\ pipes[p].sent = Len(pipes[p].shortURLs)
                /\ pipes[p].closed
                /\ pipes[p].returned)

\* the chunks of pipe whose UPDATE returned no error
Applied(pipe) ==
    {k \in 1..Len(pipe.chunks) : pipe.errs[k] = Nil}

\* C22: at-most-once attempt in the delete pipeline (postgres): every chunk
\* is given to updateBatch once, whether the UPDATE succeeds or fails: the
\* chunks, one after another, are the codes received and flushed so far and
\* each has one outcome; a failed UPDATE is not repeated (a tombstoned record
\* is listed in a chunk of its owner whose UPDATE succeeded), the consumer
\* goes on to the end of the channel (it returns only on the closed channel,
\* with every code received), and the error reaches neither the producer
\* nor the request, which was answered 202 before.
AtMostOnceAttempt ==
    StorageType = "postgres" =>
        /\ \A p \in 1..Len(pipes) :
              LET pipe == pipes[p]
              IN  /\ Len(pipe.errs) = Len(pipe.chunks)
                  /\ Len(Flat(pipe.chunks)) <= pipe.sent
                  /\ Flat(pipe.chunks)
                        = SubSeq(pipe.shortURLs, 1, Len(Flat(pipe.chunks)))
                  /\ pipe.returned =>
                        /\ pipe.closed
                        /\ pipe.sent = Len(pipe.shortURLs)
                        /\ Flat(pipe.chunks) = pipe.shortURLs
                  /\ pipe.acknowledged
        /\ \A i \in 1..Len(Stored) :
              Stored[i].DeletedFlag =>
                  \E p \in 1..Len(pipes) : \E k \in Applied(pipes[p]) :
                      /\ Stored[i].ShortURL \in Range(pipes[p].chunks[k])
                      /\ Stored[i].UserID = pipes[p].userID
        /\ ret.op \in {"BatchDelete.recv", "BatchDelete.return", "close"} =>
              ret.err = Nil

\* the UPDATE of the first chunk of a long request failed, the consumer went
\* on, and the UPDATE of the second chunk tombstoned a record
AtMostOnceWitness ==
    /\ StorageType = "postgres"
    /\ \E p \in 1..Len(pipes) :
          /\ pipes[p].returned
          /\ Len(pipes[p].errs) = 2
          /\ pipes[p].errs[1] # Nil
          /\ pipes[p].errs[2] = Nil
          /\ \E i \in 1..Len(Stored) :
                /\ Stored[i].DeletedFlag
                /\ Stored[i].ShortURL \in Range(pipes[p].chunks[2])
          /\ \E i \in 1..Len(Stored) :
                /\ ~Stored[i].DeletedFlag
                /\ Stored[i].UserID = pipes[p].userID
                /\ Stored[i].ShortURL \in Range(pipes[p].chunks[1])

\* C30: an HTTP delete request without an Authorization cookie tombstones
\* nothing: WithAuth gives it a new user ID with CookieExisted = false, and
\* DeleteUrlsAsync answers 401, creates no channel, starts no BatchDelete
\* and leaves the stored records as they were.
NoCookieNoDelete ==
    [][\A l \in DeleteLists :
          ServeDeleteUrlsAsync(NoCookie, l) =>
              /\ WithAuth(NoCookie, NewUserID).UserID = NewUserID
              /\ ~WithAuth(NoCookie, NewUserID).CookieExisted
              /\ ret'.status = 401
              /\ pipes' = pipes
              /\ Records(Storage)' = Records(Storage)]_vars

\* a request without a cookie that listed the code of a stored record was
\* answered 401 and the record is not tombstoned
NoCookieWitness ==
    /\ ret.op = "DeleteUrlsAsync"
    /\ ret.arg[1] = NewUserID
    /\ ret.status = 401
    /\ Len(ret.arg[2]) >= 1
    /\ \E i \in 1..Len(Stored) :
          Stored[i].ShortURL = ret.arg[2][1] /\ ~Stored[i].DeletedFlag

\* the draws of a batch request that are neither stored nor drawn before
Fresh(draws, recs) ==
    {k \in 1..Len(draws) :
        /\ draws[k] \notin CodesOf(recs)
        /\ \A j \in 1..(k - 1) : draws[j] # draws[k]}

\* C23: GenerateShortBatch, when it returns without error for a batch of N
\* requests, returns N responses and N records in the order of the
\* requests: the i-th carries the i-th correlation ID and original URL, the
\* given owner and one code (as BaseURL/code in the response); the N codes
\* are pairwise distinct; a candidate already minted in the batch does not
\* advance the index and another is drawn, so the codes are the candidates
\* drawn that were neither stored nor drawn before.
BatchGenerated ==
    (ret.op = "ShortenBatch" /\ ValidateBatchRequestURLs(ret.arg[1])
        /\ ret.val.err = Nil) =>
        LET batch == ret.arg[1]
            draws == ret.arg[3]
            out == ret.val
            N == Len(batch)
        IN  /\ Len(out.batchResponse) = N
            /\ Len(out.urlData) = N
            /\ \A i \in 1..N :
                  /\ out.batchResponse[i].CorrelationID = batch[i].CorrelationID
                  /\ out.batchResponse[i].ShortURL
                        = BaseURL \o "/" \o out.urlData[i].ShortURL
                  /\ out.urlData[i].OriginalURL = batch[i].OriginalURL
                  /\ out.urlData[i].UserID = ret.arg[2]
                  /\ ~out.urlData[i].DeletedFlag
            /\ \A i, j \in 1..N :
                  i # j => out.urlData[i].ShortURL # out.urlData[j].ShortURL
            /\ CodesOf(out.urlData) = {draws[k] : k \in Fresh(draws, ret.before)}
            /\ Cardinality(Fresh(draws, ret.before)) = N

\* a batch of two was served with a candidate drawn twice: the second
\* drawing did not advance the index
BatchGeneratedWitness ==
    /\ ret.op = "ShortenBatch"
    /\ ret.val.err = Nil
    /\ Len(ret.arg[1]) = 2
    /\ Len(ret.val.urlData) = 2
    /\ Len(ret.arg[3]) = 3
    /\ ret.arg[3][1] = ret.arg[3][2]

\* C24: generator error propagation (postgres, the backend whose Exists can
\* fail): when a call of Exists fails, GenerateShortURL stops at once (it
\* draws no other candidate) and returns an empty code with an error that
\* carries the error of Exists, and GenerateShortBatch returns no response
\* and no record, also when items before were given a code; the handler
\* stores nothing.
GeneratorErrorPropagates ==
    StorageType = "postgres" =>
        /\ \A c, d \in Codes :
              GenerateShortURLExec(Storage, <<c, d>>, 1)
                  = [done |-> TRUE, val |-> "",
                     err |-> Errorf("failed to check if URL exists: "
                                    \o ExistsExec(Storage, c, FALSE).err.msg),
                     left |-> <<d>>, fail |-> 0]
        /\ (ret.op = "ShortenBatch" /\ ValidateBatchRequestURLs(ret.arg[1])
               /\ Len(ret.arg[1]) >= 1 /\ ret.arg[4] \in 1..Len(ret.arg[3])) =>
              /\ ret.val.err # Nil
              /\ ret.val.err.msg = "failed to check if URL exists: "
                                      \o ExistsExec(Storage, "", FALSE).err.msg
              /\ ret.val.batchResponse = <<>>
              /\ ret.val.urlData = <<>>
              /\ ret.status = 500
              /\ Stored = ret.before

\* the first item of a batch of two was given a code and the call of Exists
\* for the second failed
GeneratorErrorWitness ==
    /\ StorageType = "postgres"
    /\ ret.op = "ShortenBatch"
    /\ Len(ret.arg[1]) = 2
    /\ Len(ret.arg[3]) = 2
    /\ ret.arg[4] = 2
    /\ ret.arg[3][1] \notin CodesOf(ret.before)
    /\ ret.val.err # Nil
    /\ ret.val.urlData = <<>>

\* C29: the HTTP ShortenBatch handler reports no code that was not stored:
\* when PutBatch returns an error the answer is 500 and the response
\* carries no list of short URLs.
ShortenBatchStops ==
    (ret.op = "ShortenBatch" /\ ret.err # Nil) =>
        /\ ret.status = 500
        /\ ret.body.list = <<>>

\* C25: tombstones are permanent and keep their code (postgres): once a
\* record is tombstoned, after every later call (Put, PutBatch, BatchDelete
\* of any owner, any URL) it is still tombstoned, GetOriginal of its code
\* reports the URL deleted, Exists of the code is true and GenerateShortURL
\* passes the code over.
TombstonesPermanent ==
    [][StorageType = "postgres" =>
          \A c \in Codes :
              Tombstoned(c) =>
                  /\ Tombstoned(c)'
                  /\ GetOriginal(Storage, c)' = [val |-> "", err |-> ErrDeleted]
                  /\ Exists(Storage, c)' = [val |-> TRUE, err |-> Nil]
                  /\ GenerateShortURL(Storage, <<c>>)'.val # c]_vars

\* a record was tombstoned before the last call and is tombstoned after it:
\* a Put of its code or of its URL, or a BatchDelete of its owner listing it
TombstonesWitness ==
    /\ StorageType = "postgres"
    /\ \E i \in 1..Len(ret.before) :
          /\ ret.before[i].DeletedFlag
          /\ Tombstoned(ret.before[i].ShortURL)
          /\ \/ /\ ret.op = "Put"
                /\ \/ ret.arg.ShortURL = ret.before[i].ShortURL
                   \/ ret.arg.OriginalURL = ret.before[i].OriginalURL
             \/ /\ ret.op = "BatchDelete"
                /\ ret.before[i].ShortURL \in Range(ret.arg[1])
                /\ ret.before[i].UserID = ret.arg[2]

\* C26: memory mirrors the journal (filestorage): after every Put, whether
\* it returned nil or an error, the collection in memory is the sequence of
\* the records of the journal file; a Put whose journal write failed leaves
\* its record invisible to Exists.
MemoryMirrorsJournal ==
    (StorageType = "file" /\ ret.op = "Put") =>
        /\ FileStorage = [k \in 1..Len(file) |-> Unmarshal(file[k])]
        /\ (ret.err # Nil /\ ret.arg.ShortURL \notin CodesOf(ret.before)) =>
              ~Exists(Storage, ret.arg.ShortURL).val

\* C27: a conflicting Put changes nothing (postgres): when Put(code2, url,
\* o2) returns OriginalExistError the stored records are those of before
\* the call: code2 is stored if and only if it was, and the record of url
\* keeps its code (the one the error carries), owner and deleted flag.
ConflictingPutNoChange ==
    (StorageType = "postgres" /\ ret.op = "Put"
        /\ ret.err.type = "OriginalExistError") =>
        /\ Stored = ret.before
        /\ Exists(Storage, ret.arg.ShortURL).val
              = (ret.arg.ShortURL \in CodesOf(ret.before))
        /\ \E i \in 1..Len(ret.before) :
              /\ ret.before[i].OriginalURL = ret.arg.OriginalURL
              /\ Stored[i] = ret.before[i]
              /\ Stored[i].ShortURL = ret.err.ShortURL

\* a Put of a stored URL by another owner under a code not stored returned
\* the conflict
ConflictingPutWitness ==
    /\ StorageType = "postgres"
    /\ ret.op = "Put" /\ ret.err.type = "OriginalExistError"
    /\ ret.arg.ShortURL \notin CodesOf(ret.before)
    /\ \E i \in 1..Len(Stored) :
          /\ Stored[i].OriginalURL = ret.arg.OriginalURL
          /\ Stored[i].UserID # ret.arg.UserID

\* C28: the code carried by a conflict is usable (postgres): in every
\* state, also when records are tombstoned, after Put(code2, url, o2)
\* returned OriginalExistError(existingCode), GetOriginal(existingCode)
\* returns url.
ConflictCodeUsable ==
    (StorageType = "postgres" /\ ret.op = "Put"
        /\ ret.err.type = "OriginalExistError") =>
        GetOriginal(Storage, ret.err.ShortURL)
            = [val |-> ret.arg.OriginalURL, err |-> Nil]
====
